---- MODULE Spec2Model ----
(***************************************************************************)
(* Model of the git segment of powerline-go (go-git based variants):       *)
(*   - parseGitStats: classification of the worktree status lines;         *)
(*   - repoAheadBehind / computeRemoteDiff: the ahead/behind computation   *)
(*     by a lockstep walk over the local and the upstream history;         *)
(*   - segmentGit: one render of the segment;                              *)
(*   - repoStats.dirty, repoStats.any: the predicates of a summary.        *)
(* Strings are sequences of one-character strings, so that len(line) and   *)
(* line[:2] are what the code computes.                                    *)
(***************************************************************************)
EXTENDS Integers, Sequences, FiniteSets, TLC

VARIABLES
    \* ---- parseGitStats
    status,         \* []string handed to parseGitStats
    stats,          \* the repoStats it returns
    pcStats,        \* "idle" | "call" | "done"
    \* ---- the repository, as read by repoAheadBehind
    variant,        \* "git" (segment-git.go) | "tinygit" | "gitlite" (computeRemoteDiff)
    headState,      \* "branch" | "detached" | "nocommits" (repo.Head() fails)
    upstreamState,  \* "ok" | "noconf" | "noref" | "notremote"
    localHist,      \* commits repo.Log yields from the local tip, newest first
    remoteHist,     \* commits repo.Log yields from the upstream tip, newest first
    localErrAt,     \* the 0-indexed Next() call that fails with a read error: {} or {j}
    remoteErrAt,
    \* ---- repoAheadBehind
    pc,             \* "idle" | "start" | "loop" | "done" | "panic"
    localLog,       \* the local iterator: [open, calls], calls = Next() calls made so far
    remoteLog,
    localCommits,
    remoteCommits,
    localEOI,
    remoteEOI,
    iters,          \* iterations of the lockstep loop entered so far
    ret,            \* the pair returned, <<first, second>>
    \* ---- one render of the segment: its inputs
    repoOpen,       \* "ok" | "notfound" (PlainOpen fails) | "ignored" (p.ignoreRepos[root])
    worktree,       \* [err, records]: the worktree status as code pairs, or a read error
    GitDisableStats, \* p.cfg.GitDisableStats
    GitMode,        \* p.cfg.GitMode
    hasStash,       \* refs/stash resolves
    RepoBranch,     \* len(p.symbols.RepoBranch) > 0
    \* ---- segmentGit
    sgpc,           \* "idle" | "start" | "rendering" | "format" | "done"
    askedAheadBehind,
    askedStash,
    segments,       \* the []pwl.Segment returned
    \* ---- the two derived predicates of a summary
    isDirty,        \* what the last call of stats.dirty() returned
    hasInfo,        \* what the last call of stats.any() returned
    pcPred          \* "idle" | "call" | "dirty" | "done"

statsVars == <<status, stats, pcStats>>
repoVars  == <<variant, headState, upstreamState, localHist, remoteHist, localErrAt, remoteErrAt>>
walkVars  == <<pc, localLog, remoteLog, localCommits, remoteCommits, localEOI, remoteEOI, iters, ret>>
cfgVars   == <<repoOpen, worktree, GitDisableStats, GitMode, hasStash, RepoBranch>>
segVars   == <<sgpc, askedAheadBehind, askedStash, segments>>
predVars  == <<isDirty, hasInfo, pcPred>>
vars      == <<statsVars, repoVars, walkVars, cfgVars, segVars, predVars>>

----------------------------------------------------------------------------
(* Bounds of the model. *)
MaxLines == 2       \* longest status slice
MaxOwn   == 3       \* most commits exclusive to one side (|P|, |Q|)
MaxShared == 3      \* most commits shared by both histories (|S|)
MaxDisable == 2     \* longest list of disabled categories
MaxCount == 2       \* largest value of a summary field handed to dirty() and any()

----------------------------------------------------------------------------
(* parseGitStats, segment-git.go:88-112 (identical in the other variants).  *)

\* the status characters that appear in the enumerated lines
StatusChars == {" ", "?", "M", "A", "D", "U"}

\* one line of Status.String() ("XY path"), the empty string that follows the
\* last newline, and a line too short to hold a path
Lines == {<<>>, <<"?", "?">>} \cup {<<a, b, " ", "f">> : a \in StatusChars, b \in StatusChars}

\* repoStats{} (the zero value)
ZeroStats == [ahead |-> 0, behind |-> 0, untracked |-> 0, notStaged |-> 0,
              staged |-> 0, conflicted |-> 0, stashed |-> 0]

\* case "DD", "AU", "UD", "UA", "DU", "AA", "UU"
ConflictCodes == {<<"D", "D">>, <<"A", "U">>, <<"U", "D">>, <<"U", "A">>,
                  <<"D", "U">>, <<"A", "A">>, <<"U", "U">>}

\* a switch without priority: the default branch runs for every code
parseLineNoPriority(st, line) ==
    IF Len(line) > 2
    THEN LET code == SubSeq(line, 1, 2)
             s0 == IF code = <<"?", "?">> THEN [st EXCEPT !.untracked = @ + 1] ELSE st
             s1 == IF code \in ConflictCodes THEN [s0 EXCEPT !.conflicted = @ + 1] ELSE s0
             s2 == IF code[1] # " " THEN [s1 EXCEPT !.staged = @ + 1] ELSE s1
         IN  IF code[2] # " " THEN [s2 EXCEPT !.notStaged = @ + 1] ELSE s2
    ELSE st

\* the body of the range loop: one line
parseLine(st, line) ==
    IF Len(line) > 2
    THEN LET code == SubSeq(line, 1, 2) IN
         IF code = <<"?", "?">> THEN [st EXCEPT !.untracked = @ + 1]
         ELSE IF code \in ConflictCodes THEN [st EXCEPT !.conflicted = @ + 1]
         ELSE LET s1 == IF code[1] # " " THEN [st EXCEPT !.staged = @ + 1] ELSE st
              IN  IF code[2] # " " THEN [s1 EXCEPT !.notStaged = @ + 1] ELSE s1
    ELSE st

RECURSIVE parseLines(_, _)
parseLines(st, lines) ==
    IF lines = <<>> THEN st ELSE parseLines(parseLine(st, Head(lines)), Tail(lines))

parseGitStats(lines) ==
    IF Len(lines) > 1 THEN parseLines(ZeroStats, lines) ELSE ZeroStats

\* a CommitIter variable before repo.Log, and the iterator repo.Log returns
NilLog == [open |-> FALSE, calls |-> 0]
NewLog == [open |-> TRUE, calls |-> 0]

RECURSIVE SeqsUpTo(_, _)
SeqsUpTo(S, n) ==
    IF n = 0 THEN {<<>>}
    ELSE LET shorter == SeqsUpTo(S, n - 1) IN
         shorter \cup {Append(s, x) : s \in {t \in shorter : Len(t) = n - 1}, x \in S}

IdleWalk ==
    /\ variant = "git" /\ headState = "branch" /\ upstreamState = "ok"
    /\ localHist = <<>> /\ remoteHist = <<>>
    /\ localErrAt = {} /\ remoteErrAt = {}
    /\ pc = "idle" /\ localLog = NilLog /\ remoteLog = NilLog
    /\ localCommits = <<>> /\ remoteCommits = <<>>
    /\ localEOI = FALSE /\ remoteEOI = FALSE
    /\ iters = 0 /\ ret = <<0, 0>>

IdleSegment ==
    /\ repoOpen = "ok" /\ worktree = [err |-> FALSE, records |-> <<>>]
    /\ GitDisableStats = <<>>
    /\ GitMode = "simple" /\ hasStash = FALSE /\ RepoBranch = FALSE
    /\ sgpc = "idle" /\ askedAheadBehind = TRUE /\ askedStash = TRUE
    /\ segments = <<>>

IdlePred == isDirty = FALSE /\ hasInfo = FALSE /\ pcPred = "idle"

InitStats ==
    /\ status \in SeqsUpTo(Lines, MaxLines)
    /\ stats = ZeroStats
    /\ pcStats = "call"
    /\ IdleWalk
    /\ IdleSegment
    /\ IdlePred

\* stats := parseGitStats(status)
ParseGitStats ==
    /\ pcStats = "call"
    /\ stats' = parseGitStats(status)
    /\ pcStats' = "done"
    /\ UNCHANGED <<status, repoVars, walkVars, cfgVars, segVars, predVars>>

NextStats == ParseGitStats

SpecStats == InitStats /\ [][NextStats]_vars

----------------------------------------------------------------------------
(* The repository read by the ahead/behind computation.                    *)
(* A history is the chain of commit hashes repo.Log yields from a tip,     *)
(* newest first: the local one is P \o S and the upstream one Q \o S, with  *)
(* S the commits both share and P, Q the commits of one side only.         *)

\* <<base+n, ..., base+1>>: n commits, newest first
Chain(base, n) == [i \in 1..n |-> base + n + 1 - i]
SharedCommits(s) == Chain(0, s)
LocalOwn(p) == Chain(100, p)
RemoteOwn(q) == Chain(200, q)

\* *plumbing.Reference values: addr = 0 is the nil pointer; repo.Head() and
\* repo.Reference() each return a Reference object of their own
NilRef == [addr |-> 0, hash |-> 0]

\* localRef, _ := repo.Head()
LocalRef ==
    IF headState = "nocommits" THEN NilRef ELSE [addr |-> 1, hash |-> Head(localHist)]

\* a reference that resolves to the oldest commit of the upstream history
RemoteRefOldest ==
    IF upstreamState \in {"noconf", "noref"} THEN NilRef
    ELSE [addr |-> 2, hash |-> remoteHist[Len(remoteHist)]]

\* remoteRef, err := repo.Reference(remoteBranchName, true)
RemoteRef ==
    IF upstreamState \in {"noconf", "noref"} THEN NilRef
    ELSE [addr |-> 2, hash |-> Head(remoteHist)]

\* localRef == remoteRef on two *plumbing.Reference: the pointers are compared
RefEq(a, b) == a.addr = b.addr

\* one call of CommitIter.Next(): the commit at this position, or err != nil
\* at the end of the history and from the failing call on
IterNext(hist, errAt, calls) ==
    IF \E e \in errAt : calls >= e THEN [ok |-> FALSE, eof |-> FALSE, hash |-> 0]
    ELSE IF calls < Len(hist) THEN [ok |-> TRUE, eof |-> FALSE, hash |-> hist[calls + 1]]
    ELSE [ok |-> FALSE, eof |-> TRUE, hash |-> 0]

ErrPositions(hist) == {{}} \cup {{j} : j \in 0 .. Len(hist) - 1}

InitRepo ==
    /\ variant \in {"git", "tinygit", "gitlite"}
    /\ headState \in {"branch", "detached", "nocommits"}
    /\ upstreamState \in {"ok", "noconf", "noref", "notremote"}
    \* a detached HEAD has no branch section, an empty repository no upstream
    /\ headState # "branch" => upstreamState = "noconf"
    /\ \E p \in 0..MaxOwn, q \in 0..MaxOwn, s \in 0..MaxShared :
         /\ localHist = IF headState = "nocommits" THEN <<>>
                        ELSE LocalOwn(p) \o SharedCommits(s)
         /\ remoteHist = IF upstreamState \in {"noconf", "noref"} THEN <<>>
                         ELSE RemoteOwn(q) \o SharedCommits(s)
         /\ headState # "nocommits" => localHist # <<>>
         /\ upstreamState \in {"ok", "notremote"} => remoteHist # <<>>
    /\ localErrAt \in ErrPositions(localHist)
    /\ remoteErrAt \in ErrPositions(remoteHist)

InitWalk ==
    /\ localLog = NilLog /\ remoteLog = NilLog
    /\ localCommits = <<>> /\ remoteCommits = <<>>
    /\ localEOI = FALSE /\ remoteEOI = FALSE
    /\ iters = 0 /\ ret = <<0, 0>>

IdleStats == status = <<>> /\ stats = ZeroStats /\ pcStats = "idle"

InitDiv == InitRepo /\ pc = "start" /\ InitWalk /\ IdleStats /\ IdleSegment /\ IdlePred

----------------------------------------------------------------------------
(* repoAheadBehind (segment-git.go, segment-tinygit.go) and                *)
(* computeRemoteDiff (segment-gitlite.go).                                 *)

Return(pair) ==
    /\ pc' = "done"
    /\ ret' = pair

Panic ==
    /\ pc' = "panic"
    /\ UNCHANGED ret

\* the code up to the loop: the references, the early returns, case 1 and
\* the two repo.Log calls
ResolveRefs ==
    /\ pc = "start"
    /\ \/ /\ variant = "git"
          /\ IF LocalRef = NilRef
             THEN Panic /\ UNCHANGED <<localLog, remoteLog>>          \* localRef.Name() on nil
             ELSE IF headState # "branch" \/ upstreamState # "ok" \/ RefEq(LocalRef, RemoteRef)
             THEN Return(<<0, 0>>) /\ UNCHANGED <<localLog, remoteLog>>
             ELSE pc' = "loop" /\ localLog' = NewLog /\ remoteLog' = NewLog /\ UNCHANGED ret
       \/ /\ variant = "tinygit"
          /\ IF LocalRef = NilRef
             THEN Panic /\ UNCHANGED <<localLog, remoteLog>>          \* local_ref.Name() on nil
             ELSE IF upstreamState = "noconf" \/ RefEq(LocalRef, RemoteRef)
             THEN Return(<<0, 0>>) /\ UNCHANGED <<localLog, remoteLog>>
             ELSE IF RemoteRef = NilRef
             THEN Panic /\ localLog' = NewLog /\ UNCHANGED remoteLog      \* remote_ref.Hash() on nil
             ELSE pc' = "loop" /\ localLog' = NewLog /\ remoteLog' = NewLog /\ UNCHANGED ret
       \/ /\ variant = "gitlite"
          /\ IF LocalRef = NilRef \/ upstreamState = "noconf"
             THEN Panic /\ UNCHANGED <<localLog, remoteLog>>          \* nil local_ref or branch_conf
             ELSE IF RefEq(LocalRef, RemoteRef)
             THEN Return(<<0, 0>>) /\ UNCHANGED <<localLog, remoteLog>>
             ELSE IF RemoteRef = NilRef
             THEN Panic /\ localLog' = NewLog /\ UNCHANGED remoteLog      \* remote_ref.Hash() on nil
             ELSE pc' = "loop" /\ localLog' = NewLog /\ remoteLog' = NewLog /\ UNCHANGED ret
    /\ UNCHANGED <<localCommits, remoteCommits, localEOI, remoteEOI, iters>>
    /\ UNCHANGED <<statsVars, repoVars, cfgVars, segVars, predVars>>

\* a count that includes the tip found
AheadCountOffByOne(lc, rc) == Len(lc)

\* return len(localCommits) - 1, 0
AheadCount(lc, rc) == Len(lc) - 1

\* return 0, len(localCommits) - 1
BehindCount(lc, rc) == Len(lc) - 1

\* the two results in the wrong order
FoundLocalAheadSwapped(lc, rc) == <<0, AheadCount(lc, rc)>>

\* what the loop returns when a tip is found, as a <<first, second>> pair
FoundLocalAhead(lc, rc) ==
    IF variant = "gitlite" THEN <<0, Len(lc) - 1>> ELSE <<AheadCount(lc, rc), 0>>
FoundLocalBehind(lc, rc) ==
    IF variant = "gitlite" THEN <<Len(lc) - 1, 0>> ELSE <<0, BehindCount(lc, rc)>>

\* a loop that calls Next() in every iteration, at the end of a history too
AdvancesAlways(v, eoi) == TRUE

\* if !localEOI { ... localLog.Next() ... }: segment-git.go advances an iterator
\* only while it is not at its end, the other two variants in every iteration
Advances(v, eoi) == v # "git" \/ ~eoi

\* one iteration of the lockstep loop that gets past the break
LockstepIteration ==
    /\ pc = "loop"
    /\ ~(localEOI /\ remoteEOI)
    /\ LET callLocal == Advances(variant, localEOI)
           callRemote == Advances(variant, remoteEOI)
           l == IterNext(localHist, localErrAt, localLog.calls)
           r == IterNext(remoteHist, remoteErrAt, remoteLog.calls)
           lc == IF callLocal /\ l.ok THEN Append(localCommits, l.hash) ELSE localCommits
           rc == IF callRemote /\ r.ok THEN Append(remoteCommits, r.hash) ELSE remoteCommits
           lEOI == localEOI \/ (callLocal /\ ~l.ok)
           rEOI == remoteEOI \/ (callRemote /\ ~r.ok)
       IN  /\ localLog' = IF callLocal THEN [localLog EXCEPT !.calls = @ + 1] ELSE localLog
           /\ remoteLog' = IF callRemote THEN [remoteLog EXCEPT !.calls = @ + 1] ELSE remoteLog
           /\ localCommits' = lc
           /\ remoteCommits' = rc
           /\ localEOI' = lEOI
           /\ remoteEOI' = rEOI
           /\ iters' = iters + 1
           /\ IF ~lEOI /\ l.hash = RemoteRef.hash THEN Return(FoundLocalAhead(lc, rc))
              ELSE IF ~rEOI /\ r.hash = LocalRef.hash THEN Return(FoundLocalBehind(lc, rc))
              ELSE pc' = "loop" /\ UNCHANGED ret
    /\ UNCHANGED <<statsVars, repoVars, cfgVars, segVars, predVars>>

\* for ; i < bound; i++ { if localCommits[n-1-i] != remoteCommits[m-1-i] { break } }
RECURSIVE forkIndex(_, _, _, _)
forkIndex(lc, rc, bound, i) ==
    IF i < bound /\ lc[Len(lc) - i] = rc[Len(rc) - i]
    THEN forkIndex(lc, rc, bound, i + 1)
    ELSE i

\* a fork point search that drops the subtraction of the shared commits
forkPointWholeHistory(lc, rc) == <<Len(lc), Len(rc)>>

\* case 3, after the break
forkPoint(lc, rc) ==
    LET bound == IF Len(rc) < Len(lc) THEN Len(rc) ELSE Len(lc)
        i == forkIndex(lc, rc, bound, 0)
    IN  <<Len(lc) - i, Len(rc) - i>>

\* the break of the loop and the code after it
ForkPoint ==
    /\ pc = "loop"
    /\ localEOI /\ remoteEOI
    /\ Return(IF variant = "gitlite" THEN <<0, 0>> ELSE forkPoint(localCommits, remoteCommits))
    /\ UNCHANGED <<localLog, remoteLog, localCommits, remoteCommits, localEOI, remoteEOI, iters>>
    /\ UNCHANGED <<statsVars, repoVars, cfgVars, segVars, predVars>>

\* the loop and the code after it as a function of the two histories, for a
\* walk in which every read succeeds; w is the state of the loop
RECURSIVE lockstep(_, _, _, _)
lockstep(v, lh, rh, w) ==
    IF w.localEOI /\ w.remoteEOI
    THEN IF v = "gitlite" THEN <<0, 0>> ELSE forkPoint(w.localCommits, w.remoteCommits)
    ELSE LET callLocal == Advances(v, w.localEOI)
             callRemote == Advances(v, w.remoteEOI)
             l == IterNext(lh, {}, w.localCalls)
             r == IterNext(rh, {}, w.remoteCalls)
             lc == IF callLocal /\ l.ok THEN Append(w.localCommits, l.hash) ELSE w.localCommits
             rc == IF callRemote /\ r.ok THEN Append(w.remoteCommits, r.hash) ELSE w.remoteCommits
             lEOI == w.localEOI \/ (callLocal /\ ~l.ok)
             rEOI == w.remoteEOI \/ (callRemote /\ ~r.ok)
         IN  IF ~lEOI /\ l.hash = Head(rh)
             THEN IF v = "gitlite" THEN <<0, Len(lc) - 1>> ELSE <<Len(lc) - 1, 0>>
             ELSE IF ~rEOI /\ r.hash = Head(lh)
             THEN IF v = "gitlite" THEN <<Len(lc) - 1, 0>> ELSE <<0, Len(lc) - 1>>
             ELSE lockstep(v, lh, rh,
                           [localCalls |-> IF callLocal THEN w.localCalls + 1 ELSE w.localCalls,
                            remoteCalls |-> IF callRemote THEN w.remoteCalls + 1 ELSE w.remoteCalls,
                            localCommits |-> lc, remoteCommits |-> rc,
                            localEOI |-> lEOI, remoteEOI |-> rEOI])

\* what variant v returns for a branch whose history is lh and whose upstream
\* has the history rh (both with a tip): case 1 never applies, the two
\* references being two objects
aheadBehind(v, lh, rh) ==
    lockstep(v, lh, rh, [localCalls |-> 0, remoteCalls |-> 0,
                         localCommits |-> <<>>, remoteCommits |-> <<>>,
                         localEOI |-> FALSE, remoteEOI |-> FALSE])

\* the <<ahead, behind>> the caller of variant v stores from that result
storedAheadBehind(v, lh, rh) ==
    LET res == aheadBehind(v, lh, rh)
    IN  IF v = "gitlite" THEN <<res[2], res[1]>> ELSE res

NextDiv == ResolveRefs \/ LockstepIteration \/ ForkPoint

SpecDiv == InitDiv /\ [][NextDiv]_vars

\* the call runs to its end: nothing but its own steps can hold it up
SpecDivFair == SpecDiv /\ WF_vars(NextDiv)

\* what the caller stores: stats.ahead, stats.behind = repoAheadBehind(repo),
\* and stats.behind, stats.ahead = computeRemoteDiff(repo)
StoredAhead == IF variant = "gitlite" THEN ret[2] ELSE ret[1]
StoredBehind == IF variant = "gitlite" THEN ret[1] ELSE ret[2]

----------------------------------------------------------------------------
(* segmentGit, segment-git.go:246-325, with repoBranch, repoStatus and the  *)
(* formatting of the summary. A Content string is a sequence of pieces.    *)

Categories == <<"ahead", "behind", "staged", "notStaged", "untracked", "conflicted", "stashed">>

Symbol(cat) == [kind |-> "symbol", cat |-> cat, n |-> 0]
Count(n) == [kind |-> "count", cat |-> "", n |-> n]
Space == [kind |-> "space", cat |-> "", n |-> 0]
Name(str) == [kind |-> "name", cat |-> str, n |-> 0]

\* repoBranch: "" when repo.Head() fails, the branch name, or the short hash
repoBranch ==
    IF headState = "nocommits" THEN <<>>
    ELSE IF headState = "branch" THEN <<Name("branch")>>
    ELSE <<Name("hash7")>>

\* strings.Split(treeStats.String(), "\n"): one "XY path" line per record,
\* and the empty string after the last newline
statusLines(records) == [i \in 1..Len(records) |-> records[i] \o <<" ", "f">>] \o << <<>> >>

\* repoStatus: the zero summary when the worktree or its status cannot be read
repoStatus(wt) == IF wt.err THEN ZeroStats ELSE parseGitStats(statusLines(wt.records))

\* a dirty() that counts the commits ahead of the upstream as well
dirtyCountsAhead(r) == r.ahead + r.untracked + r.notStaged + r.staged + r.conflicted > 0

dirty(r) == r.untracked + r.notStaged + r.staged + r.conflicted > 0

any(r) == r.ahead + r.behind + r.untracked + r.notStaged + r.staged + r.conflicted + r.stashed > 0

addRepoStatsSymbol(nChanges, cat, mode) ==
    IF nChanges > 0
    THEN IF mode = "compact" THEN <<Space, Count(nChanges), Symbol(cat)>> ELSE <<Symbol(cat)>>
    ELSE <<>>

GitSymbols(r, mode) ==
    addRepoStatsSymbol(r.ahead, "ahead", mode) \o addRepoStatsSymbol(r.behind, "behind", mode)
    \o addRepoStatsSymbol(r.staged, "staged", mode) \o addRepoStatsSymbol(r.notStaged, "notStaged", mode)
    \o addRepoStatsSymbol(r.untracked, "untracked", mode) \o addRepoStatsSymbol(r.conflicted, "conflicted", mode)
    \o addRepoStatsSymbol(r.stashed, "stashed", mode)

addRepoStatsSegment(nChanges, cat) ==
    IF nChanges > 0
    THEN << [name |-> "git-status", content |-> <<Count(nChanges), Symbol(cat)>>, colour |-> cat] >>
    ELSE <<>>

GitSegments(r) ==
    addRepoStatsSegment(r.ahead, "ahead") \o addRepoStatsSegment(r.behind, "behind")
    \o addRepoStatsSegment(r.staged, "staged") \o addRepoStatsSegment(r.notStaged, "notStaged")
    \o addRepoStatsSegment(r.untracked, "untracked")
    \o (IF r.stashed > 0
        THEN << [name |-> "git-status", content |-> <<Symbol("stashed")>>, colour |-> "stashed"] >>
        ELSE <<>>)

\* GitSegments2 of segment-gitlite.go (the same in the two exec-git variants):
\* a segment for conflicted too, and the stash segment with its count
GitSegments2(r) ==
    addRepoStatsSegment(r.ahead, "ahead") \o addRepoStatsSegment(r.behind, "behind")
    \o addRepoStatsSegment(r.staged, "staged") \o addRepoStatsSegment(r.notStaged, "notStaged")
    \o addRepoStatsSegment(r.untracked, "untracked") \o addRepoStatsSegment(r.conflicted, "conflicted")
    \o addRepoStatsSegment(r.stashed, "stashed")

\* the formatting of the summary by GitMode, at the end of a render of variant v
formatStats(segs, s, mode, v) ==
    IF mode = "simple"
    THEN IF any(s)
         THEN <<[segs[1] EXCEPT !.content = @ \o <<Space>> \o GitSymbols(s, mode)]>>
         ELSE segs
    ELSE IF mode = "compact"
    THEN IF any(s)
         THEN <<[segs[1] EXCEPT !.content = @ \o GitSymbols(s, mode)]>>
         ELSE segs
    ELSE segs \o (IF v = "gitlite" THEN GitSegments2(s) ELSE GitSegments(s))

\* a render that ignores p.cfg.GitDisableStats
disableStatsIgnored(acc, list) == acc

\* the loop over p.cfg.GitDisableStats: [stats, askedAheadBehind, askedStash]
RECURSIVE disableStats(_, _)
disableStats(acc, list) ==
    IF list = <<>> THEN acc
    ELSE LET stat == Head(list)
             next ==
               CASE stat = "ahead" -> [acc EXCEPT !.stats.ahead = 0, !.askedAheadBehind = FALSE]
                 [] stat = "behind" -> [acc EXCEPT !.stats.behind = 0, !.askedAheadBehind = FALSE]
                 [] stat = "staged" -> [acc EXCEPT !.stats.staged = 0]
                 [] stat = "notStaged" -> [acc EXCEPT !.stats.notStaged = 0]
                 [] stat = "untracked" -> [acc EXCEPT !.stats.untracked = 0]
                 [] stat = "conflicted" -> [acc EXCEPT !.stats.conflicted = 0]
                 [] stat = "stashed" -> [acc EXCEPT !.stats.stashed = 0, !.askedStash = FALSE]
                 [] OTHER -> acc
         IN  disableStats(next, Tail(list))

\* the worktree statuses of the enumerated renders
Worktrees ==
    { [err |-> TRUE, records |-> <<>>],
      [err |-> FALSE, records |-> <<>>],
      [err |-> FALSE, records |-> << <<"?", "?">> >>],
      [err |-> FALSE, records |->
         << <<"?", "?">>, <<"U", "U">>, <<"M", " ">>, <<" ", "M">>, <<"M", "M">> >>] }

DisableNames == {Categories[i] : i \in DOMAIN Categories}

\* the repositories of the enumerated renders: an empty one, a detached HEAD,
\* a branch without upstream, and a branch that is ahead, behind or forked
InitSegmentRepo ==
    /\ variant = "git"
    /\ \/ headState = "nocommits" /\ upstreamState = "noconf"
          /\ localHist = <<>> /\ remoteHist = <<>>
       \/ headState \in {"detached", "branch"} /\ upstreamState = "noconf"
          /\ localHist = SharedCommits(1) /\ remoteHist = <<>>
       \/ headState = "branch" /\ upstreamState = "ok"
          /\ \E p \in 0..1, q \in 0..1 :
               /\ p + q > 0
               /\ localHist = LocalOwn(p) \o SharedCommits(1)
               /\ remoteHist = RemoteOwn(q) \o SharedCommits(1)
    /\ localErrAt = {} /\ remoteErrAt = {}

Init ==
    /\ InitSegmentRepo
    /\ InitWalk /\ pc = "idle"
    /\ IdleStats
    /\ repoOpen \in {"ok", "notfound", "ignored"}
    /\ worktree \in Worktrees
    /\ GitDisableStats \in SeqsUpTo(DisableNames, MaxDisable)
    /\ GitMode \in {"simple", "compact", "fancy"}
    /\ hasStash \in BOOLEAN
    /\ RepoBranch \in BOOLEAN
    \* nothing but the repository is read when it is not found or ignored
    /\ repoOpen # "ok" =>
         /\ headState = "nocommits" /\ ~worktree.err /\ worktree.records = <<>>
         /\ GitDisableStats = <<>>
         /\ GitMode = "simple" /\ ~hasStash /\ ~RepoBranch
    /\ sgpc = "start" /\ askedAheadBehind = TRUE /\ askedStash = TRUE
    /\ segments = <<>>
    /\ IdlePred

\* segmentGit up to the call of repoAheadBehind (lines 246-305)
SegmentGitBegin ==
    /\ sgpc = "start"
    /\ IF repoOpen # "ok"
       THEN /\ sgpc' = "done"
            /\ segments' = <<>>
            /\ UNCHANGED <<status, stats, askedAheadBehind, askedStash, pc, isDirty>>
       ELSE LET name == repoBranch
                branch == IF RepoBranch THEN <<Symbol("branch"), Space>> \o name ELSE name
                parsed == repoStatus(worktree)
                colour == IF dirty(parsed) THEN "RepoDirty" ELSE "RepoClean"   \* stats.dirty()
                after == disableStats([stats |-> parsed, askedAheadBehind |-> TRUE,
                                       askedStash |-> TRUE], GitDisableStats)
            IN  /\ status' = IF worktree.err THEN <<>> ELSE statusLines(worktree.records)
                /\ isDirty' = dirty(parsed)
                /\ segments' = << [name |-> "git-branch", content |-> branch, colour |-> colour] >>
                /\ stats' = after.stats
                /\ askedAheadBehind' = after.askedAheadBehind
                /\ askedStash' = after.askedStash
                /\ sgpc' = "rendering"
                /\ pc' = IF after.askedAheadBehind THEN "start" ELSE "idle"
    /\ UNCHANGED <<pcStats, repoVars, cfgVars, hasInfo, pcPred>>
    /\ UNCHANGED <<localLog, remoteLog, localCommits, remoteCommits, localEOI, remoteEOI, iters, ret>>

\* segmentGit from the return of repoAheadBehind on (lines 306-324)
SegmentGitEnd ==
    /\ sgpc = "rendering"
    /\ pc \in {"idle", "done"}
    /\ LET s1 == IF askedAheadBehind
                 THEN [stats EXCEPT !.ahead = StoredAhead, !.behind = StoredBehind]
                 ELSE stats
           s2 == IF askedStash /\ hasStash THEN [s1 EXCEPT !.stashed = 1] ELSE s1
       IN  /\ stats' = s2
           \* stats.any() is called in the simple and the compact mode only
           /\ hasInfo' = IF GitMode \in {"simple", "compact"} THEN any(s2) ELSE hasInfo
           /\ segments' = formatStats(segments, s2, GitMode, variant)
    /\ sgpc' = "done"
    /\ UNCHANGED <<status, pcStats, repoVars, walkVars, cfgVars, askedAheadBehind, askedStash>>
    /\ UNCHANGED <<isDirty, pcPred>>

Next == SegmentGitBegin \/ ResolveRefs \/ LockstepIteration \/ ForkPoint \/ SegmentGitEnd

Spec == Init /\ [][Next]_vars

----------------------------------------------------------------------------
(* repoStats.dirty and repoStats.any on every summary with small fields.   *)

Summaries ==
    [ahead : 0..MaxCount, behind : 0..MaxCount, untracked : 0..MaxCount,
     notStaged : 0..MaxCount, staged : 0..MaxCount, conflicted : 0..MaxCount,
     stashed : 0..MaxCount]

InitPred ==
    /\ status = <<>> /\ stats \in Summaries /\ pcStats = "idle"
    /\ IdleWalk
    /\ IdleSegment
    /\ isDirty = FALSE /\ hasInfo = FALSE /\ pcPred = "call"

\* stats.dirty()
CallDirty ==
    /\ pcPred = "call"
    /\ isDirty' = dirty(stats)
    /\ pcPred' = "dirty"
    /\ UNCHANGED <<statsVars, repoVars, walkVars, cfgVars, segVars, hasInfo>>

\* stats.any()
CallAny ==
    /\ pcPred = "dirty"
    /\ hasInfo' = any(stats)
    /\ pcPred' = "done"
    /\ UNCHANGED <<statsVars, repoVars, walkVars, cfgVars, segVars, isDirty>>

NextPred == CallDirty \/ CallAny

SpecPred == InitPred /\ [][NextPred]_vars

----------------------------------------------------------------------------
(* The formatting of every summary with small fields, in every mode and by *)
(* every variant.                                                          *)

InitFormat ==
    /\ status = <<>> /\ stats \in Summaries /\ pcStats = "idle"
    /\ variant \in {"git", "tinygit", "gitlite"}
    /\ headState = "branch" /\ upstreamState = "ok"
    /\ localHist = <<>> /\ remoteHist = <<>>
    /\ localErrAt = {} /\ remoteErrAt = {}
    /\ InitWalk /\ pc = "idle"
    /\ repoOpen = "ok" /\ worktree = [err |-> FALSE, records |-> <<>>]
    /\ GitDisableStats = <<>>
    /\ GitMode \in {"simple", "compact", "fancy"}
    /\ hasStash = FALSE /\ RepoBranch = FALSE
    /\ sgpc = "format" /\ askedAheadBehind = TRUE /\ askedStash = TRUE
    /\ segments = << [name |-> "git-branch", content |-> <<Name("branch")>>,
                      colour |-> IF dirty(stats) THEN "RepoDirty" ELSE "RepoClean"] >>
    /\ IdlePred

\* if p.cfg.GitMode == "simple" { ... } else if ... "compact" { ... } else { ... }
FormatStats ==
    /\ sgpc = "format"
    /\ hasInfo' = IF GitMode \in {"simple", "compact"} THEN any(stats) ELSE hasInfo
    /\ segments' = formatStats(segments, stats, GitMode, variant)
    /\ sgpc' = "done"
    /\ UNCHANGED <<statsVars, repoVars, walkVars, cfgVars, askedAheadBehind, askedStash>>
    /\ UNCHANGED <<isDirty, pcPred>>

NextFormat == FormatStats

SpecFormat == InitFormat /\ [][NextFormat]_vars

----------------------------------------------------------------------------
(* Claims about parseGitStats, checked under SpecStats. *)

\* a change record: a line that holds both codes and a path
IsRecord(line) == Len(line) > 2
IsUntracked(line) == IsRecord(line) /\ SubSeq(line, 1, 2) = <<"?", "?">>
IsConflict(line) == IsRecord(line) /\ SubSeq(line, 1, 2) \in ConflictCodes
IsGeneric(line) == IsRecord(line) /\ ~IsUntracked(line) /\ ~IsConflict(line)
NumUntracked == Cardinality({i \in DOMAIN status : IsUntracked(status[i])})
NumConflict == Cardinality({i \in DOMAIN status : IsConflict(status[i])})
NumGeneric == Cardinality({i \in DOMAIN status : IsGeneric(status[i])})
NumStaged == Cardinality({i \in DOMAIN status : IsGeneric(status[i]) /\ status[i][1] # " "})
NumNotStaged == Cardinality({i \in DOMAIN status : IsGeneric(status[i]) /\ status[i][2] # " "})

\* C1: for every sequence of change records parseGitStats returns untracked =
\* the number of '??' records, conflicted = the number of records with a
\* conflict pair, staged / notStaged = the number of remaining records whose
\* index / worktree code is not a space.
C1_CountsEveryRecord ==
    pcStats = "done" =>
        /\ stats.untracked = NumUntracked
        /\ stats.conflicted = NumConflict
        /\ stats.staged = NumStaged
        /\ stats.notStaged = NumNotStaged

\* C2: a record counted as untracked or conflicted is counted neither as
\* staged nor as notStaged, no record is counted as both untracked and
\* conflicted, and the totals of staged and notStaged only draw on the records
\* that are neither.
C2_MutualExclusivity ==
    /\ \A i \in DOMAIN status :
          LET d == parseLine(ZeroStats, status[i]) IN
          /\ (d.untracked > 0 \/ d.conflicted > 0) => (d.staged = 0 /\ d.notStaged = 0)
          /\ ~(d.untracked > 0 /\ d.conflicted > 0)
          /\ IsUntracked(status[i]) => d.untracked = 1
          /\ IsConflict(status[i]) => d.conflicted = 1
    /\ pcStats = "done" =>
          /\ stats.staged <= NumGeneric
          /\ stats.notStaged <= NumGeneric
          /\ stats.untracked <= NumUntracked
          /\ stats.conflicted <= NumConflict

\* a run that counted an untracked and a conflicted record, both with
\* non-space codes, and nothing as staged or notStaged
C2_Witness ==
    /\ pcStats = "done"
    /\ stats.untracked = 1 /\ stats.conflicted = 1
    /\ stats.staged = 0 /\ stats.notStaged = 0

\* C3: parseGitStats on the one-element sequence [('?','?')] returns
\* (staged, notStaged, untracked, conflicted) = (0,0,1,0), and on [('U','U')]
\* it returns (0,0,0,1).
C3_SingleRecordClassified ==
    pcStats = "done" =>
        /\ status = << <<"?", "?", " ", "f">> >> =>
              <<stats.staged, stats.notStaged, stats.untracked, stats.conflicted>> = <<0, 0, 1, 0>>
        /\ status = << <<"U", "U", " ", "f">> >> =>
              <<stats.staged, stats.notStaged, stats.untracked, stats.conflicted>> = <<0, 0, 0, 1>>

----------------------------------------------------------------------------
(* Claims about repoAheadBehind, checked under SpecDiv. *)

Range(seq) == {seq[i] : i \in DOMAIN seq}

\* the 0-indexed step at which history hist visits commit h, -1 if it never does
VisitStep(hist, h) ==
    IF h \in Range(hist) THEN (CHOOSE i \in DOMAIN hist : hist[i] = h) - 1 ELSE -1

\* a run of repoAheadBehind proper that reached the walk and returned
AheadBehindReturned ==
    /\ pc = "done"
    /\ variant \in {"git", "tinygit"}
    /\ localLog.open

\* the local iterator yields its commits up to step k
LocalYields(k) == \A e \in localErrAt : e > k
NoReadError == localErrAt = {} /\ remoteErrAt = {}

\* the local tip is not in the upstream history and the upstream tip not in the local one
Forked ==
    /\ VisitStep(localHist, Head(remoteHist)) = -1
    /\ VisitStep(remoteHist, Head(localHist)) = -1

\* the number of equal entries of the two histories, counted from the oldest end
CommonOldest ==
    LET m == IF Len(localHist) < Len(remoteHist) THEN Len(localHist) ELSE Len(remoteHist)
        agree(j) == \A t \in 0..(j - 1) :
                       localHist[Len(localHist) - t] = remoteHist[Len(remoteHist) - t]
    IN  CHOOSE j \in 0..m : agree(j) /\ (j < m => ~agree(j + 1))

\* C4: if the local history visits the upstream tip at step k >= 1 and the
\* upstream history never visits the local tip, repoAheadBehind returns (k, 0),
\* whatever the length of the upstream history.
C4_FastForwardAhead ==
    LET k == VisitStep(localHist, Head(remoteHist)) IN
    (/\ AheadBehindReturned
     /\ k >= 1
     /\ VisitStep(remoteHist, Head(localHist)) = -1
     /\ LocalYields(k))
    => ret = <<k, 0>>

\* local is two commits ahead of an upstream that has at least two commits
C4_Witness ==
    /\ AheadBehindReturned /\ variant = "git" /\ NoReadError
    /\ VisitStep(localHist, Head(remoteHist)) = 2
    /\ Len(remoteHist) >= 2
    /\ ret = <<2, 0>>

\* C5: if the upstream history visits the local tip at step k >= 1 and the
\* local history never visits the upstream tip, repoAheadBehind returns (0, k),
\* whatever the length (>= 1) of the local history.
C5_FastForwardBehind ==
    LET k == VisitStep(remoteHist, Head(localHist)) IN
    (/\ AheadBehindReturned
     /\ k >= 1
     /\ VisitStep(localHist, Head(remoteHist)) = -1
     /\ NoReadError)
    => ret = <<0, k>>

\* C6: when both histories are exhausted without either tip being found in the
\* other, repoAheadBehind returns (len(localSeen) - i, len(upstreamSeen) - i)
\* with i the number of equal entries counted from the oldest end, which for
\* P \o S against Q \o S is (|P|, |Q|), and the whole lengths when i = 0.
C6_ForkPoint ==
    (AheadBehindReturned /\ Forked /\ NoReadError)
    => /\ localCommits = localHist
       /\ remoteCommits = remoteHist
       /\ ret = <<Len(localHist) - CommonOldest, Len(remoteHist) - CommonOldest>>
       /\ ret = <<Cardinality(Range(localHist) \ Range(remoteHist)),
                  Cardinality(Range(remoteHist) \ Range(localHist))>>
       /\ CommonOldest = 0 => ret = <<Len(localHist), Len(remoteHist)>>

\* local history of 6 and upstream history of 5 commits that share the 3 oldest
C6_Witness ==
    /\ AheadBehindReturned /\ Forked /\ NoReadError
    /\ Len(localHist) = 6 /\ Len(remoteHist) = 5 /\ CommonOldest = 3
    /\ ret = <<3, 2>>

\* C7: when the local tip and the upstream tip are the same commit,
\* repoAheadBehind returns (0, 0), for every history of that commit.
C7_Identity ==
    (/\ AheadBehindReturned
     /\ Head(localHist) = Head(remoteHist)
     /\ LocalYields(0))
    => ret = <<0, 0>>

\* both tips are the newest of three shared commits
C7_Witness ==
    /\ AheadBehindReturned /\ variant = "git" /\ NoReadError
    /\ Head(localHist) = Head(remoteHist)
    /\ Len(localHist) = 3
    /\ ret = <<0, 0>>

\* no upstream: no branch section, no remote-tracking reference, or a detached HEAD
NoUpstream ==
    /\ headState # "nocommits"
    /\ headState = "detached" \/ upstreamState \in {"noconf", "noref"}

\* C8: when no upstream is available every divergence implementation returns
\* (0, 0) without creating or advancing a history iterator and without crashing.
C8_NoUpstreamZero ==
    (NoUpstream /\ pc \notin {"idle", "start"})
    => /\ pc = "done"
       /\ ret = <<0, 0>>
       /\ ~localLog.open /\ ~remoteLog.open
       /\ localLog.calls = 0 /\ remoteLog.calls = 0

\* an iterator returned a read error (not the end of its history) during the walk
ReadErrorSeen ==
    \/ \E e \in localErrAt : localLog.calls > e
    \/ \E e \in remoteErrAt : remoteLog.calls > e

\* C9: if a history iterator returns a backend read error at any step of the
\* walk, repoAheadBehind returns (0, 0): it neither aborts nor reports counts
\* computed from the partially read history.
C9_TraversalFailureZero ==
    (variant = "git" /\ ReadErrorSeen /\ pc \in {"done", "panic"})
    => (pc = "done" /\ ret = <<0, 0>>)

----------------------------------------------------------------------------
(* Claims about segmentGit, checked under Spec. *)

\* C10: in a repository without commits segmentGit still completes the render,
\* with an empty branch label and ahead = behind = 0; the divergence step (run
\* whenever ahead/behind is not disabled) does not crash the process.
C10_EmptyRepositoryRenders ==
    (repoOpen = "ok" /\ headState = "nocommits")
    => /\ pc # "panic"
       /\ sgpc = "done" =>
            /\ Len(segments) >= 1
            /\ \A i \in DOMAIN segments[1].content : segments[1].content[i].kind # "name"
            /\ stats.ahead = 0 /\ stats.behind = 0

----------------------------------------------------------------------------
(* Further claims about repoAheadBehind, checked under SpecDiv. *)

\* C11: in every outcome of repoAheadBehind - every return path, every pair of
\* histories, runs in which an iterator yields nothing or fails at its first
\* step included - both ahead and behind are non-negative.
C11_NonNegative ==
    (pc = "done" /\ variant \in {"git", "tinygit"}) => (ret[1] >= 0 /\ ret[2] >= 0)

----------------------------------------------------------------------------
(* Claims about dirty(), checked under SpecPred. *)

\* C12: for every summary with non-negative fields dirty() is true iff at
\* least one of untracked, notStaged, staged, conflicted is nonzero; it is
\* false for the all-zero summary and the same whatever ahead, behind and
\* stashed are.
C12_DirtyIffTreeChange ==
    pcPred \in {"dirty", "done"} =>
        /\ isDirty <=> (stats.untracked # 0 \/ stats.notStaged # 0
                        \/ stats.staged # 0 \/ stats.conflicted # 0)
        /\ stats = ZeroStats => ~isDirty
        /\ \A a \in 0..MaxCount, b \in 0..MaxCount, st \in 0..MaxCount :
              dirty([stats EXCEPT !.ahead = a, !.behind = b, !.stashed = st]) = isDirty

\* dirty() returned false on a summary that is ahead, behind and stashed
C12_Witness ==
    /\ pcPred = "done"
    /\ stats.ahead = MaxCount /\ stats.behind = 1 /\ stats.stashed = 1
    /\ ~isDirty /\ hasInfo

----------------------------------------------------------------------------
(* Claims about the disabled categories, checked under Spec. *)

Disabled == Range(GitDisableStats)

\* a stash symbol or a stash segment in the output
StashShown ==
    \E i \in DOMAIN segments :
       \/ segments[i].colour = "stashed"
       \/ \E j \in DOMAIN segments[i].content : segments[i].content[j] = Symbol("stashed")

\* C13: when "stashed" is in the disabled-category list the output of
\* segmentGit holds no stash symbol, count or segment in any display mode,
\* whatever the repository says about stash entries and wherever "stashed"
\* stands in the list.
C13_StashedDisabled ==
    (repoOpen = "ok" /\ "stashed" \in Disabled)
    => /\ ~StashShown
       /\ sgpc \in {"rendering", "done"} => (stats.stashed = 0 /\ ~askedStash)

\* a finished fancy render of a repository with a stash, "stashed" standing
\* last in a list of two, that shows other categories
C13_Witness ==
    /\ sgpc = "done" /\ repoOpen = "ok" /\ hasStash /\ GitMode = "fancy"
    /\ Len(GitDisableStats) = 2 /\ GitDisableStats[2] = "stashed"
    /\ GitDisableStats[1] # "stashed"
    /\ Len(segments) > 2
    /\ ~StashShown

\* the value of a category computed from the repository
Computed(cat) ==
    CASE cat \in {"ahead", "behind"} ->
           LET ab == IF headState = "branch" /\ upstreamState = "ok"
                     THEN storedAheadBehind(variant, localHist, remoteHist)
                     ELSE <<0, 0>>
           IN  IF cat = "ahead" THEN ab[1] ELSE ab[2]
      [] cat = "stashed" -> IF hasStash THEN 1 ELSE 0
      [] OTHER -> repoStatus(worktree)[cat]

\* C14: the summary segmentGit hands to formatting has 0 in every field named
\* in the disabled list, and every field not named there keeps the value
\* computed from the repository.
C14_ZeroesExactlyNamed ==
    (sgpc = "done" /\ repoOpen = "ok")
    => \A cat \in DisableNames :
          stats[cat] = IF cat \in Disabled THEN 0 ELSE Computed(cat)

\* the branch segment carries the symbol of a category
SymbolsAppended ==
    \E j \in DOMAIN segments[1].content :
       /\ segments[1].content[j].kind = "symbol"
       /\ segments[1].content[j].cat \in DisableNames

\* C18: dirty() and any() are evaluated on the same side of the zeroing loop:
\* in a render whose summary is without ahead, behind and stashed, the branch
\* segment has the dirty colours iff symbols are appended, so a disabled
\* category counts toward both predicates or toward neither.
C18_ConsistentOrdering ==
    (/\ sgpc = "done" /\ repoOpen = "ok"
     /\ GitMode \in {"simple", "compact"}
     /\ stats.ahead = 0 /\ stats.behind = 0 /\ stats.stashed = 0)
    => /\ isDirty <=> hasInfo
       /\ (segments[1].colour = "RepoDirty") <=> SymbolsAppended

----------------------------------------------------------------------------
(* Claims about the course of the walk, checked under SpecDiv. *)

UpstreamResolved == headState = "branch" /\ upstreamState = "ok"

\* C15: when the local tip and the upstream tip are the same commit,
\* repoAheadBehind returns through the equality check of case 1, before any
\* history iterator is created or advanced.
C15_CaseOneBeforeIterators ==
    (/\ variant \in {"git", "tinygit"} /\ UpstreamResolved
     /\ Head(localHist) = Head(remoteHist)
     /\ pc \notin {"idle", "start"})
    => /\ pc = "done" /\ ret = <<0, 0>>
       /\ ~localLog.open /\ ~remoteLog.open
       /\ localLog.calls = 0 /\ remoteLog.calls = 0 /\ iters = 0

\* the step at which one history visits the tip of the other, -1 if neither does
TipFoundAt ==
    LET kl == VisitStep(localHist, Head(remoteHist))
    IN  IF kl >= 0 THEN kl ELSE VisitStep(remoteHist, Head(localHist))

\* C16: when one tip is found at step k of the other side's history the loop
\* returns in iteration k+1, each iterator having been advanced at most k+1
\* times, however many older commits the histories share.
C16_ShortCircuit ==
    (/\ variant \in {"git", "tinygit"} /\ UpstreamResolved
     /\ TipFoundAt >= 0
     /\ \A e \in localErrAt \cup remoteErrAt : e > TipFoundAt
     /\ pc \in {"loop", "done"})
    => /\ localLog.calls <= TipFoundAt + 1 /\ remoteLog.calls <= TipFoundAt + 1
       /\ pc = "loop" => iters <= TipFoundAt
       /\ pc = "done" => iters = TipFoundAt + 1

\* local is one commit ahead of an upstream of three commits: the loop
\* returned in its second iteration
C16_Witness ==
    /\ pc = "done" /\ variant = "git" /\ UpstreamResolved /\ NoReadError
    /\ TipFoundAt = 1 /\ Len(remoteHist) = 3 /\ Len(localHist) = 4
    /\ iters = 2 /\ localLog.calls = 2 /\ remoteLog.calls = 2

LongerHistory == IF Len(localHist) < Len(remoteHist) THEN Len(remoteHist) ELSE Len(localHist)

\* C17: repoAheadBehind of segment-git.go terminates; its loop runs at most
\* max(len(local history), len(upstream history)) + 1 iterations, and an
\* iterator that has reported the end of its history is not advanced again.
C17_Terminates ==
    /\ [](iters <= LongerHistory + 1)
    /\ [][variant = "git" => /\ localEOI => localLog' = localLog
                             /\ remoteEOI => remoteLog' = remoteLog]_vars
    /\ <>(pc \in {"done", "panic"})

\* a forked walk that ran max + 1 iterations, the shorter local history
\* having ended before the last of them
C17_Witness ==
    /\ pc = "done" /\ variant = "git" /\ NoReadError
    /\ localEOI /\ remoteEOI
    /\ iters = LongerHistory + 1
    /\ localLog.calls = Len(localHist) + 1
    /\ localLog.calls < iters

\* a finished walk returned what the function of the two histories gives
WalkIsFunctionOfHistories ==
    (pc = "done" /\ UpstreamResolved /\ localLog.open /\ NoReadError)
    => ret = aheadBehind(variant, localHist, remoteHist)

\* C19: for two chain histories that share their oldest commits, if
\* repoAheadBehind with local = a and upstream = b returns (x, y), then with
\* local = b and upstream = a it returns (y, x).
C19_RoleSwap ==
    (/\ AheadBehindReturned /\ UpstreamResolved /\ NoReadError
     /\ localHist[Len(localHist)] = remoteHist[Len(remoteHist)])
    => /\ ret = aheadBehind(variant, localHist, remoteHist)
       /\ aheadBehind(variant, remoteHist, localHist) = <<ret[2], ret[1]>>

\* C20: for every pair of chain histories with an upstream configured, the
\* ahead and behind stored from computeRemoteDiff equal those stored from
\* repoAheadBehind of segment-git.go and of segment-tinygit.go.
C20_VariantAgreement ==
    (pc = "done" /\ variant = "gitlite" /\ UpstreamResolved /\ localLog.open /\ NoReadError)
    => /\ <<StoredAhead, StoredBehind>> = storedAheadBehind("git", localHist, remoteHist)
       /\ <<StoredAhead, StoredBehind>> = storedAheadBehind("tinygit", localHist, remoteHist)

----------------------------------------------------------------------------
(* Claims about the formatting, checked under SpecFormat. *)

\* the categories with a value greater than zero
Positive(r) == {cat \in DisableNames : r[cat] > 0}

\* the categories whose symbol a Content string carries
SymbolCategories(content) ==
    {content[j].cat : j \in {i \in DOMAIN content : content[i].kind = "symbol"}} \cap DisableNames

\* the categories of the git-status segments of an output
SegmentCategories(segs) ==
    {segs[i].colour : i \in {j \in DOMAIN segs : segs[j].name = "git-status"}}

NumStatusSegments(segs) == Cardinality({j \in DOMAIN segs : segs[j].name = "git-status"})

\* C21: in fancy mode GitSegments emits one git-status segment for every
\* summary field that is greater than zero (ahead, behind, staged, notStaged,
\* untracked, conflicted, stashed) and none for a field that is zero: the
\* categories GitSymbols shows in simple and compact mode.
C21_DisplayCompleteness ==
    (sgpc = "done" /\ GitMode = "fancy")
    => /\ SegmentCategories(segments) = Positive(stats)
       /\ NumStatusSegments(segments) = Cardinality(Positive(stats))
       /\ SegmentCategories(segments) = SymbolCategories(GitSymbols(stats, "simple"))
       /\ SegmentCategories(segments) = SymbolCategories(GitSymbols(stats, "compact"))

====
